---- MODULE Spec2Model ----
(***************************************************************************)
(* Model of the Pool of pool2 (src/unnamed/part_000).                      *)
(*                                                                         *)
(* The pool runs on the single-threaded node.js event loop: every handler  *)
(* (an API call, a process.nextTick entry, a timer, a callback handed to   *)
(* one of the user's functions) runs to completion, and is one action.     *)
(* The handlers call one another synchronously (release calls              *)
(* _maybeAllocateResource, which calls _allocateResource, ...), so each    *)
(* method is an operator from a state record to a state record and an      *)
(* action commits the record its handler ends with.                        *)
(*                                                                         *)
(* The user's functions (acquire = the factory, release = the teardown,    *)
(* ping, destroy) are the environment: each call either throws             *)
(* synchronously or stays outstanding until its callback action fires,     *)
(* with an error or with success; it may also never fire.                  *)
(***************************************************************************)
EXTENDS Integers, Sequences, FiniteSets, TLC

\* ------------------------------------------------------------------ bounds
\* number of calls of the user's factory the model follows
MaxFactoryCalls == 2
\* number of calls of Pool.acquire the model follows
MaxAcquires == 2
\* number of ResourceRequest objects constructed
MaxRequestObjs == 1
\* number of method calls and elapsed deadlines on the ResourceRequest objects
MaxRequestOps == 3
\* number of pools registered with the Cluster
MaxPools == 2
\* number of calls of Cluster.acquire
MaxClusterAcquires == 3

\* ------------------------------------------------- configuration of the pool
\* the options the constructor is given: opts.min, opts.max, opts.maxRequests
\* (the constructor keeps min <= max, max >= 1, maxRequests >= 1), and
\* opts.acquireTimeout, opts.releaseTimeout in milliseconds
Configs ==
    { [min |-> 1, max |-> 2, maxRequests |-> 2,
       acquireTimeout |-> 20, releaseTimeout |-> 10],
      [min |-> 0, max |-> 1, maxRequests |-> 1,
       acquireTimeout |-> 0, releaseTimeout |-> 0] }

\* a value no factory call ever returned ('foo' in the tests)
Foreign == 0
\* the resources the factory returns, in the order it returns them
Res == 1..MaxFactoryCalls
Values == Res \cup {Foreign}

VARIABLES
    min,         \* this.min
    max,         \* this.max
    maxRequests, \* this.maxRequests
    acquireTimeout, \* this.acquireTimeout
    releaseTimeout, \* this.releaseTimeout
    pool,        \* this.pool: the resources in the pool (keys of the HashMap)
    available,   \* this.available: sequence of idle resources, head is newest
    stale,       \* members of pool whose idleSince is older than idleTimeout
    requests,    \* this.requests: queue of request ids
    acquiring,   \* this.acquiring
    live,        \* this.live
    ending,      \* this.ending
    destroyed,   \* this.destroyed
    syncTimer,   \* TRUE while the setInterval of the constructor is armed
    nextTicks,   \* process.nextTick queue: "ensureMinimum" / "dispatch"
    factPending, \* factory calls outstanding whose acquire timer is armed
    factLate,    \* factory calls outstanding whose acquire timer has fired
    ensureTimers,\* pending setTimeout(_ensureMinimum, 2000)
    pingTimer,   \* resources whose ping timer is armed
    pingCb,      \* resources whose ping callback is outstanding
    teardowns,   \* calls of the user's release outstanding or with armed timer
    drainListener, \* end() registered closeResources with once('drain')
    endCalled,   \* end() has been called
    closing,     \* closeResources has run
    endCount,    \* the count variable of closeResources
    endCb,       \* number of times the callback of end() was invoked
    held,        \* resources a consumer got from its callback and still has
    resolved,    \* ids of the requests whose callback received a resource
    events,      \* what the latest handler emitted or passed to a callback
    factoryCalls,\* number of calls of the user's factory so far
    returned,    \* resources the factory has returned so far
    late,        \* resources the factory returned after its timer had fired
    tornDown,    \* resources handed to the user's release
    destroyedRes,\* resources handed to the user's destroy
    acquires,    \* number of calls of Pool.acquire so far
    rr,          \* the ResourceRequest objects constructed so far
    cluster      \* the Cluster: its pools, ended, and its last acquire

\* the variables of the pool and of the callers of its methods
poolVars ==
    << min, max, maxRequests, acquireTimeout, releaseTimeout, pool,
       available, stale, requests, acquiring, live, ending,
       destroyed, syncTimer, nextTicks, factPending, factLate,
       ensureTimers, pingTimer, pingCb, teardowns, drainListener,
       endCalled, closing, endCount, endCb, held, resolved,
       events, factoryCalls, returned, late, tornDown, destroyedRes,
       acquires >>

vars == << poolVars, rr, cluster >>

\* the state as one record, with the events of the previous handler dropped
State ==
    [ pool |-> pool, available |-> available, stale |-> stale,
      requests |-> requests, acquiring |-> acquiring, live |-> live,
      ending |-> ending, destroyed |-> destroyed, syncTimer |-> syncTimer,
      nextTicks |-> nextTicks, factPending |-> factPending,
      factLate |-> factLate, ensureTimers |-> ensureTimers,
      pingTimer |-> pingTimer, pingCb |-> pingCb, teardowns |-> teardowns,
      drainListener |-> drainListener, endCalled |-> endCalled,
      closing |-> closing, endCount |-> endCount, endCb |-> endCb,
      held |-> held, resolved |-> resolved, events |-> {}, factoryCalls |-> factoryCalls, returned |-> returned,
      late |-> late, tornDown |-> tornDown, destroyedRes |-> destroyedRes,
      acquires |-> acquires ]

Commit(s) ==
    /\ pool' = s.pool              /\ available' = s.available
    /\ stale' = s.stale            /\ requests' = s.requests
    /\ acquiring' = s.acquiring    /\ live' = s.live
    /\ ending' = s.ending          /\ destroyed' = s.destroyed
    /\ syncTimer' = s.syncTimer    /\ nextTicks' = s.nextTicks
    /\ factPending' = s.factPending /\ factLate' = s.factLate
    /\ ensureTimers' = s.ensureTimers
    /\ pingTimer' = s.pingTimer    /\ pingCb' = s.pingCb
    /\ teardowns' = s.teardowns    /\ drainListener' = s.drainListener
    /\ endCalled' = s.endCalled    /\ closing' = s.closing
    /\ endCount' = s.endCount      /\ endCb' = s.endCb
    /\ held' = s.held              /\ events' = s.events
    /\ resolved' = s.resolved
    /\ factoryCalls' = s.factoryCalls /\ returned' = s.returned
    /\ late' = s.late              /\ tornDown' = s.tornDown
    /\ destroyedRes' = s.destroyedRes /\ acquires' = s.acquires
    /\ UNCHANGED << min, max, maxRequests, acquireTimeout, releaseTimeout,
                    rr, cluster >>

\* ----------------------------------------------------------------- helpers
\* Array.prototype.indexOf(res) > -1
InSeq(q, r) == \E i \in 1..Len(q) : q[i] = r

\* Array.prototype.splice(indexOf(res), 1): drops the first occurrence
RECURSIVE Splice(_, _)
Splice(q, r) ==
    IF q = << >> THEN << >>
    ELSE IF Head(q) = r THEN Tail(q)
    ELSE << Head(q) >> \o Splice(Tail(q), r)

Emit(s, e) == [s EXCEPT !.events = @ \cup {e}]

\* How the user's functions behave when a handler calls them: acquire (the
\* factory) or ping may throw synchronously; otherwise the call stays
\* outstanding until its callback action fires.  A synchronous throw of
\* release is handled by remove exactly as an immediate callback with an
\* error (clearTimeout, warn, cb(e)), which TeardownDone covers, and a throw
\* of destroy only emits warn.
Inputs ==
    { u \in [ fthrow : BOOLEAN, pthrow : BOOLEAN ] :
        ~(u.fthrow /\ u.pthrow) }

RECURSIVE destroy(_, _, _), ensureMinimum(_, _), ensureLoop(_, _, _),
          allocateResource(_, _), onError(_, _), destroyPool(_, _),
          destroyAll(_, _, _), maybeAllocateResource(_, _)

\* Pool.prototype.destroy
destroy(s, res, u) ==
    LET s1 == [s EXCEPT !.available = Splice(@, res),
                        !.stale = @ \ {res},
                        !.pool = @ \ {res},
                        !.destroyedRes = @ \cup {res}]
    IN  ensureMinimum(s1, u)

\* this.pool.forEach(destroy) of _destroyPool, over the keys in keys
destroyAll(s, keys, u) ==
    IF keys = {} THEN s
    ELSE LET k == CHOOSE x \in keys : \A y \in keys : x <= y
         IN  destroyAll(destroy(s, k, u), keys \ {k}, u)

\* Pool.prototype._destroyPool
destroyPool(s, u) ==
    LET s1 == [s EXCEPT !.destroyed = TRUE, !.syncTimer = FALSE]
        s2 == destroyAll(s1, s1.pool, u)
    IN  [s2 EXCEPT !.pool = {}]

\* onError of _allocateResource (clearTimeout is done by the caller's
\* bookkeeping of factPending)
onError(s, u) ==
    IF s.live = FALSE
    THEN Emit(destroyPool(s, u), << "error" >>)
    ELSE s

\* Pool.prototype._allocateResource, up to the return of this._acquire
allocateResource(s, u) ==
    IF s.destroyed THEN s
    ELSE LET s1 == [s EXCEPT !.acquiring = @ + 1,
                             !.factoryCalls = @ + 1]
         IN  IF u.fthrow
             THEN onError(s1, u)
             ELSE [s1 EXCEPT !.factPending = @ + 1]

\* while (n--) { this._allocateResource(); }
ensureLoop(s, n, u) ==
    IF n = 0 THEN s
    ELSE ensureLoop(allocateResource(s, u), n - 1, u)

\* _ensureMinimum that allocates one resource less than is missing
ensureMinimum_OneShort(s, u) ==
    IF s.ending \/ s.destroyed THEN s
    ELSE LET n == min - (Cardinality(s.pool) + s.acquiring) - 1
         IN  IF n <= 0 THEN s ELSE ensureLoop(s, n, u)

\* _ensureMinimum that does not look at this.ending
ensureMinimum_WhileEnding(s, u) ==
    IF s.destroyed THEN s
    ELSE LET n == min - (Cardinality(s.pool) + s.acquiring)
         IN  IF n <= 0 THEN s ELSE ensureLoop(s, n, u)

\* Pool.prototype._ensureMinimum
ensureMinimum(s, u) ==
    IF s.ending \/ s.destroyed THEN s
    ELSE LET n == min - (Cardinality(s.pool) + s.acquiring)
         IN  IF n <= 0 THEN s ELSE ensureLoop(s, n, u)

\* the callback closeResources passes to remove: count--, and cb() at zero
endStep(s) ==
    LET s1 == [s EXCEPT !.endCount = @ - 1]
    IN  IF s1.endCount = 0 THEN [s1 EXCEPT !.endCb = @ + 1] ELSE s1

\* remove that leaves the resource in the available array
remove_KeepAvailable(s, res, skipError, forEnd, u) ==
    LET s1 == [s EXCEPT !.stale = @ \ {res}]
        s2 == IF res \in s1.pool
              THEN [s1 EXCEPT !.pool = @ \ {res}]
              ELSE IF ~skipError THEN Emit(s1, << "error" >>) ELSE s1
        s3 == [s2 EXCEPT !.tornDown = @ \cup {res}]
    IN  [s3 EXCEPT !.teardowns = @ \cup
            {[res |-> res, timer |-> TRUE, forEnd |-> forEnd]}]

\* Pool.prototype.remove, up to the return of this._release; forEnd says
\* that cb is the callback of closeResources
remove(s, res, skipError, forEnd, u) ==
    LET s1 == [s EXCEPT !.available = Splice(@, res), !.stale = @ \ {res}]
        s2 == IF res \in s1.pool
              THEN [s1 EXCEPT !.pool = @ \ {res}]
              ELSE IF ~skipError THEN Emit(s1, << "error" >>) ELSE s1
        s3 == [s2 EXCEPT !.tornDown = @ \cup {res}]
    IN  [s3 EXCEPT !.teardowns = @ \cup
            {[res |-> res, timer |-> TRUE, forEnd |-> forEnd]}]

\* this.pool.forEach(remove) of closeResources, over the keys in keys
RECURSIVE removeAll(_, _, _)
removeAll(s, keys, u) ==
    IF keys = {} THEN s
    ELSE LET k == CHOOSE x \in keys : \A y \in keys : x <= y
         IN  removeAll(remove(s, k, FALSE, TRUE, u), keys \ {k}, u)

\* closeResources of Pool.prototype.end
closeResources(s, u) ==
    LET s1 == [s EXCEPT !.syncTimer = FALSE, !.closing = TRUE]
        count == Cardinality(s1.pool)
    IN  IF count = 0
        THEN [s1 EXCEPT !.endCb = @ + 1]
        ELSE removeAll([s1 EXCEPT !.endCount = count], s1.pool, u)

\* this.emit('drain'): the only listener is the once('drain') of end()
emitDrain(s, u) ==
    LET s1 == Emit(s, << "drain" >>)
    IN  IF s1.drainListener
        THEN closeResources([s1 EXCEPT !.drainListener = FALSE], u)
        ELSE s1

\* _maybeAllocateResource that grows the pool without looking at max
maybeAllocateResource_NoMax(s, u) ==
    IF Len(s.requests) = 0 THEN s
    ELSE IF Len(s.available) > 0
    THEN LET res == Head(s.available)
             s1 == [s EXCEPT !.available = Tail(@),
                             !.pingTimer = @ \cup {res}]
         IN  IF u.pthrow
             THEN maybeAllocateResource(
                      remove(Emit(s1, << "error" >>), res, FALSE, FALSE, u), u)
             ELSE [s1 EXCEPT !.pingCb = @ \cup {res}]
    ELSE allocateResource(s, u)

\* _maybeAllocateResource that pings the head of available without taking
\* it out of the array
maybeAllocateResource_NoShift(s, u) ==
    IF Len(s.requests) = 0 THEN s
    ELSE IF Len(s.available) > 0
    THEN LET res == Head(s.available)
             s1 == [s EXCEPT !.pingTimer = @ \cup {res}]
         IN  IF u.pthrow
             THEN maybeAllocateResource(
                      remove(Emit(s1, << "error" >>), res, FALSE, FALSE, u), u)
             ELSE [s1 EXCEPT !.pingCb = @ \cup {res}]
    ELSE IF Cardinality(s.pool) + s.acquiring < max
    THEN allocateResource(s, u)
    ELSE s

\* Pool.prototype._maybeAllocateResource, up to the return of this._ping
maybeAllocateResource(s, u) ==
    IF Len(s.requests) = 0 THEN s
    ELSE IF Len(s.available) > 0
    THEN LET res == Head(s.available)
             s1 == [s EXCEPT !.available = Tail(@),
                             !.pingTimer = @ \cup {res}]
         IN  IF u.pthrow
             THEN \* catch: emit error, abort(); the timer stays armed
                  maybeAllocateResource(
                      remove(Emit(s1, << "error" >>), res, FALSE, FALSE, u), u)
             ELSE [s1 EXCEPT !.pingCb = @ \cup {res}]
    ELSE IF Cardinality(s.pool) + s.acquiring < max
    THEN allocateResource(s, u)
    ELSE s

\* abort of _maybeAllocateResource
abort(s, res, u) ==
    maybeAllocateResource(remove(s, res, FALSE, FALSE, u), u)

\* the loop of _reap without n > this.min
RECURSIVE reapLoop_IgnoreMin(_, _, _, _)
reapLoop_IgnoreMin(s, n, i, u) ==
    IF ~(i >= 1) THEN s
    ELSE IF i <= Len(s.available) /\ s.available[i] \in s.stale
         THEN reapLoop_IgnoreMin(remove(s, s.available[i], FALSE, FALSE, u),
                                 n - 1, i - 1, u)
         ELSE reapLoop_IgnoreMin(s, n, i - 1, u)

\* Pool.prototype._reap: the loop from the tail of available towards its head
RECURSIVE reapLoop(_, _, _, _)
reapLoop(s, n, i, u) ==
    IF ~(n > min /\ i >= 1) THEN s
    ELSE IF i <= Len(s.available) /\ s.available[i] \in s.stale
         THEN reapLoop(remove(s, s.available[i], FALSE, FALSE, u),
                       n - 1, i - 1, u)
         ELSE reapLoop(s, n, i - 1, u)

reap(s, u) == reapLoop(s, Cardinality(s.pool), Len(s.available), u)

\* release without the test for a resource that is already in available
release_NoIdleCheck(s, res, u) ==
    IF res \notin s.pool
    THEN Emit(s, << "error", "Resource not member of pool" >>)
    ELSE LET s1 == [s EXCEPT !.stale = @ \ {res},
                             !.available = << res >> \o @]
             s2 == IF Len(s1.requests) = 0 THEN emitDrain(s1, u) ELSE s1
         IN  maybeAllocateResource(s2, u)

\* release that emits drain whatever the length of the request queue
release_DrainAlways(s, res, u) ==
    IF res \notin s.pool
    THEN Emit(s, << "error", "Resource not member of pool" >>)
    ELSE IF InSeq(s.available, res)
    THEN Emit(s, << "error", "Resource already released" >>)
    ELSE LET s1 == [s EXCEPT !.stale = @ \ {res},
                             !.available = << res >> \o @]
         IN  maybeAllocateResource(emitDrain(s1, u), u)

\* Pool.prototype.release
release(s, res, u) ==
    IF res \notin s.pool
    THEN Emit(s, << "error", "Resource not member of pool" >>)
    ELSE IF InSeq(s.available, res)
    THEN Emit(s, << "error", "Resource already released" >>)
    ELSE LET s1 == [s EXCEPT !.stale = @ \ {res},
                             !.available = << res >> \o @]
             s2 == IF Len(s1.requests) = 0 THEN emitDrain(s1, u) ELSE s1
         IN  maybeAllocateResource(s2, u)

\* acquire without the check of maxRequests
acquire_NoFullCheck(s, u) ==
    LET s1 == [s EXCEPT !.acquires = @ + 1]
    IN  IF s1.destroyed \/ s1.ending
        THEN Emit(s1, << "cb", IF s1.ending THEN "Pool is ending"
                                            ELSE "Pool is destroyed" >>)
        ELSE [s1 EXCEPT !.requests = Append(@, s1.acquires),
                        !.nextTicks = Append(@, "dispatch")]

\* Pool.prototype.acquire
acquire(s, u) ==
    LET s1 == [s EXCEPT !.acquires = @ + 1]
    IN  IF s1.destroyed \/ s1.ending
        THEN Emit(s1, << "cb", IF s1.ending THEN "Pool is ending"
                                            ELSE "Pool is destroyed" >>)
        ELSE IF Len(s1.requests) >= maxRequests
        THEN Emit(s1, << "cb", "Pool is full" >>)
        ELSE [s1 EXCEPT !.requests = Append(@, s1.acquires),
                        !.nextTicks = Append(@, "dispatch")]

\* Pool.prototype.end
end(s, u) ==
    LET s1 == [s EXCEPT !.ending = TRUE, !.endCalled = TRUE]
    IN  IF Len(s1.requests) = 0 /\ s1.acquiring = 0
        THEN closeResources(s1, u)
        ELSE [s1 EXCEPT !.drainListener = TRUE]

\* the callback of this._acquire that returns at once when the timer has
\* fired, whatever the factory hands over
acquireCallback_DropLate(s, fired, err, u) ==
    LET res == Cardinality(s.returned) + 1
        s1 == IF fired THEN [s EXCEPT !.factLate = @ - 1]
              ELSE [s EXCEPT !.factPending = @ - 1, !.acquiring = @ - 1]
        s2 == IF err THEN s1 ELSE [s1 EXCEPT !.returned = @ \cup {res}]
    IN  IF fired /\ ~err
        THEN [s2 EXCEPT !.late = @ \cup {res}]
        ELSE IF err THEN onError(s2, u)
        ELSE LET s3 == [s2 EXCEPT !.live = TRUE,
                                  !.pool = @ \cup {res},
                                  !.available = << res >> \o @]
             IN  IF s3.ending /\ Len(s3.requests) = 0 /\ s3.acquiring = 0
                 THEN emitDrain(s3, u)
                 ELSE maybeAllocateResource(s3, u)

\* the callback of this._acquire that does not look at the timer: a late
\* resource is put into the pool like one that arrived in time
acquireCallback_LateToPool(s, fired, err, u) ==
    LET res == Cardinality(s.returned) + 1
        s1 == IF fired THEN [s EXCEPT !.factLate = @ - 1]
              ELSE [s EXCEPT !.factPending = @ - 1, !.acquiring = @ - 1]
        s2 == IF err THEN s1
              ELSE [s1 EXCEPT !.returned = @ \cup {res},
                              !.late = IF fired THEN @ \cup {res} ELSE @]
    IN  IF err THEN onError(s2, u)
        ELSE LET s3 == [s2 EXCEPT !.live = TRUE,
                                  !.pool = @ \cup {res},
                                  !.available = << res >> \o @]
             IN  IF s3.ending /\ Len(s3.requests) = 0 /\ s3.acquiring = 0
                 THEN emitDrain(s3, u)
                 ELSE maybeAllocateResource(s3, u)

\* the callback _allocateResource passes to this._acquire; fired says that
\* the acquire timer has fired before (timer is null)
acquireCallback(s, fired, err, u) ==
    LET res == Cardinality(s.returned) + 1
        s1 == IF fired THEN [s EXCEPT !.factLate = @ - 1]
              ELSE [s EXCEPT !.factPending = @ - 1, !.acquiring = @ - 1]
        s2 == IF err THEN s1 ELSE [s1 EXCEPT !.returned = @ \cup {res}]
    IN  IF fired /\ ~err
        THEN remove([s2 EXCEPT !.late = @ \cup {res}], res, TRUE, FALSE, u)
        ELSE IF err THEN onError(s2, u)
        ELSE LET s3 == [s2 EXCEPT !.live = TRUE,
                                  !.pool = @ \cup {res},
                                  !.available = << res >> \o @]
             IN  IF s3.ending /\ Len(s3.requests) = 0 /\ s3.acquiring = 0
                 THEN emitDrain(s3, u)
                 ELSE maybeAllocateResource(s3, u)

\* the timer of _allocateResource
acquireTimer(s, u) ==
    LET s1 == [s EXCEPT !.factPending = @ - 1, !.factLate = @ + 1,
                        !.acquiring = @ - 1]
        s2 == onError(s1, u)
    IN  [s2 EXCEPT !.ensureTimers = @ + 1]

\* the ping callback that serves the newest request: requests.pop()
pingCallback_Pop(s, res, err, u) ==
    LET s1 == [s EXCEPT !.pingTimer = @ \ {res}, !.pingCb = @ \ {res}]
    IN  IF err THEN abort(Emit(s1, << "warn", "Ping failed" >>), res, u)
        ELSE IF Len(s1.requests) = 0
        THEN Emit(s1, << "TypeError" >>)
        ELSE LET req == s1.requests[Len(s1.requests)]
             IN  [s1 EXCEPT !.requests = SubSeq(@, 1, Len(@) - 1),
                            !.held = @ \cup {res},
                            !.resolved = @ \cup {req}]

\* the ping callback that removes a failed resource and does not re-enter
\* _maybeAllocateResource
pingCallback_NoRetry(s, res, err, u) ==
    LET s1 == [s EXCEPT !.pingTimer = @ \ {res}, !.pingCb = @ \ {res}]
    IN  IF err
        THEN remove(Emit(s1, << "warn", "Ping failed" >>), res, FALSE, FALSE, u)
        ELSE IF Len(s1.requests) = 0
        THEN Emit(s1, << "TypeError" >>)
        ELSE LET req == Head(s1.requests)
             IN  [s1 EXCEPT !.requests = Tail(@),
                            !.held = @ \cup {res},
                            !.resolved = @ \cup {req}]

\* the callback _maybeAllocateResource passes to this._ping
pingCallback(s, res, err, u) ==
    LET s1 == [s EXCEPT !.pingTimer = @ \ {res}, !.pingCb = @ \ {res}]
    IN  IF err THEN abort(Emit(s1, << "warn", "Ping failed" >>), res, u)
        ELSE IF Len(s1.requests) = 0
        THEN \* requests.shift() is undefined: req.ts throws a TypeError
             Emit(s1, << "TypeError" >>)
        ELSE LET req == Head(s1.requests)
             IN  [s1 EXCEPT !.requests = Tail(@),
                            !.held = @ \cup {res},
                            !.resolved = @ \cup {req}]

\* the callback remove passes to this._release
releaseCallback(s, t, err, u) ==
    LET s1 == [s EXCEPT !.teardowns = @ \ {t}]
        s2 == IF err THEN Emit(s1, << "warn" >>) ELSE ensureMinimum(s1, u)
    IN  IF t.forEnd THEN endStep(s2) ELSE s2

\* the timer of remove: this.destroy.bind(this, res)
releaseTimer(s, t, u) ==
    destroy([s EXCEPT !.teardowns =
                 (@ \ {t}) \cup {[t EXCEPT !.timer = FALSE]}], t.res, u)

\* the setInterval callback of the constructor
syncTick(s, u) ==
    maybeAllocateResource(reap(ensureMinimum(s, u), u), u)

\* -------------------------------------------------------------- Cluster
\* capability tags of the tests: capabilities: ['read', 'write']
Capabilities == { "read", "write" }

\* error messages of Cluster.acquire
NoPoolsCanFulfil == "No pools can fulfil capability"
NoPoolsAvailable == "No pools available"
ClusterIsEnded == "Cluster is ended"

\* a Pool as the Cluster sees it: its capabilities and max, and the numbers
\* stats() is computed from: pool.count(), available.length,
\* requests.length; loaned counts the resources of this pool the callers of
\* the Cluster hold (the R -> pool mapping)
newPool(capabilities, maxOpt, maxRequestsOpt) ==
    [ capabilities |-> capabilities, max |-> maxOpt,
      maxRequests |-> maxRequestsOpt, allocated |-> 0,
      idle |-> 0, queued |-> 0, loaned |-> 0, ending |-> FALSE ]

\* Pool.prototype.stats
stats(p) ==
    [ max |-> p.max,
      allocated |-> p.allocated,
      available |-> p.max - (p.allocated - p.idle),
      queued |-> p.queued,
      maxRequests |-> p.maxRequests ]

\* Pool.prototype.acquire as the Cluster's delegate: the error its callback
\* receives at once ("": none)
poolAcquireError(p) ==
    IF p.ending THEN "Pool is ending"
    ELSE IF p.queued >= p.maxRequests THEN "Pool is full"
    ELSE ""

\* Pool.prototype.acquire as the Cluster's delegate: the request is queued
poolAcquire(p) ==
    IF poolAcquireError(p) = "" THEN [p EXCEPT !.queued = @ + 1] ELSE p

\* the pool serves the head of its queue: an idle resource if there is
\* one, else a new one from the factory
poolServe(p) ==
    IF p.idle > 0
    THEN [p EXCEPT !.idle = @ - 1, !.queued = @ - 1, !.loaned = @ + 1]
    ELSE [p EXCEPT !.allocated = @ + 1, !.queued = @ - 1, !.loaned = @ + 1]

\* Pool.prototype.release of a resource this pool handed out
poolRelease(p) == [p EXCEPT !.loaned = @ - 1, !.idle = @ + 1]

\* new Cluster(pools)
newCluster(pools) ==
    [ pools |-> pools, ended |-> FALSE, acquires |-> 0,
      last |-> [ required |-> {}, chosen |-> 0, err |-> "" ] ]

\* a capability test that lets every pool match
hasCapabilities_Any(p, required) == TRUE

\* a pool matches when its capabilities are a superset of the required set
hasCapabilities(p, required) == required \subseteq p.capabilities

\* the score of a pool: available slots minus queued requests
headroom(p) == stats(p).available - stats(p).queued

\* a pool is at capacity when its stats show no headroom and a full queue
atCapacity(p) ==
    headroom(p) <= 0 /\ stats(p).queued >= stats(p).maxRequests

\* the first of the pools in cands, whatever its headroom
bestSource_First(c, cands) ==
    CHOOSE i \in cands : \A j \in cands : i <= j

\* the pool of cands with the greatest headroom, the first registered among
\* equals
bestSource(c, cands) ==
    CHOOSE i \in cands : \A j \in cands :
        \/ headroom(c.pools[i]) > headroom(c.pools[j])
        \/ headroom(c.pools[i]) = headroom(c.pools[j]) /\ i <= j

\* Cluster.prototype.acquire(capability, cb); last records the required
\* set, the pool the acquire was delegated to (0: none) and the error the
\* callback received at once
clusterAcquire(c, required) ==
    LET c1 == [c EXCEPT !.acquires = @ + 1]
        fail(err) == [c1 EXCEPT !.last = [ required |-> required,
                                           chosen |-> 0, err |-> err ]]
        matching == { i \in DOMAIN c.pools :
                        hasCapabilities(c.pools[i], required) }
    IN  IF c.ended THEN fail(ClusterIsEnded)
        ELSE IF matching = {} THEN fail(NoPoolsCanFulfil)
        ELSE IF \A i \in matching : atCapacity(c.pools[i])
        THEN fail(NoPoolsAvailable)
        ELSE LET i == bestSource(c, matching)
             IN  [c1 EXCEPT !.pools[i] = poolAcquire(@),
                            !.last = [ required |-> required, chosen |-> i,
                                       err |-> poolAcquireError(c.pools[i]) ]]

\* Cluster.prototype.release(res) for a resource of pool i
clusterRelease(c, i) == [c EXCEPT !.pools[i] = poolRelease(@)]

\* Cluster.prototype.end: mark ended, end every pool
clusterEnd(c) ==
    [c EXCEPT !.ended = TRUE,
              !.pools = [i \in DOMAIN @ |-> [@[i] EXCEPT !.ending = TRUE]]]

\* ------------------------------------------------------------- the machine
PoolInit ==
    /\ \E c \in Configs :
         /\ min = c.min /\ max = c.max /\ maxRequests = c.maxRequests
         /\ acquireTimeout = c.acquireTimeout
         \* this.releaseTimeout = !isNaN(opts.releaseTimeout) ?
         \*     opts.acquireTimeout : 30 * 1000
         /\ releaseTimeout = c.acquireTimeout
    /\ pool = {} /\ available = << >> /\ stale = {} /\ requests = << >>
    /\ acquiring = 0 /\ live = FALSE /\ ending = FALSE /\ destroyed = FALSE
    /\ syncTimer = TRUE /\ nextTicks = << "ensureMinimum" >>
    /\ factPending = 0 /\ factLate = 0 /\ ensureTimers = 0
    /\ pingTimer = {} /\ pingCb = {} /\ teardowns = {}
    /\ drainListener = FALSE /\ endCalled = FALSE /\ closing = FALSE
    /\ endCount = 0 /\ endCb = 0 /\ held = {} /\ resolved = {} /\ events = {}
    /\ factoryCalls = 0 /\ returned = {} /\ late = {} /\ tornDown = {}
    /\ destroyedRes = {} /\ acquires = 0

Init == PoolInit /\ rr = << >> /\ cluster = newCluster(<< >>)

\* timers run only when the process.nextTick queue is empty
TimersRun == nextTicks = << >>

\* a handler is followed only while the factory-call budget lasts
Within(s) == s.factoryCalls <= MaxFactoryCalls

Step(s) == Within(s) /\ Commit(s)

\* the head of the process.nextTick queue runs
Tick ==
    /\ nextTicks # << >>
    /\ \E u \in Inputs :
         LET s == [State EXCEPT !.nextTicks = Tail(@)]
         IN  Step(IF Head(nextTicks) = "ensureMinimum"
                  THEN ensureMinimum(s, u)
                  ELSE maybeAllocateResource(s, u))

Acquire ==
    /\ acquires < MaxAcquires
    /\ \E u \in Inputs : Step(acquire(State, u))

\* a consumer gives back the resource it holds
ReleaseHeld ==
    \E r \in held, u \in Inputs :
        Step(release([State EXCEPT !.held = @ \ {r}], r, u))

\* release of a value nobody holds: a foreign value or an idle resource
ReleaseOther ==
    \E r \in Values, u \in Inputs :
        /\ r \notin held
        /\ r \notin pool \/ InSeq(available, r)
        /\ Step(release(State, r, u))

\* Pool.remove called by the user on a held or idle resource
RemoveCall ==
    \E r \in Res, u \in Inputs :
        /\ r \in held \/ InSeq(available, r)
        /\ Step(remove([State EXCEPT !.held = @ \ {r}],
                       r, FALSE, FALSE, u))

\* Pool.destroy called by the user on a held or idle resource
DestroyCall ==
    \E r \in Res, u \in Inputs :
        /\ r \in held \/ InSeq(available, r)
        /\ Step(destroy([State EXCEPT !.held = @ \ {r}], r, u))

End ==
    /\ ~endCalled
    /\ \E u \in Inputs : Step(end(State, u))

\* Pool._destroyPool called from outside
DestroyPoolCall ==
    /\ ~destroyed
    /\ \E u \in Inputs : Step(destroyPool(State, u))

SyncTick ==
    /\ TimersRun /\ syncTimer
    /\ \E u \in Inputs : Step(syncTick(State, u))

\* time passes: the resources of a tail of available have been idle for
\* more than idleTimeout
Age ==
    /\ TimersRun
    /\ \E i \in 1..Len(available) :
         /\ available[i] \notin stale
         /\ stale' = stale \cup {available[j] : j \in i..Len(available)}
    /\ events' = {}
    /\ UNCHANGED << min, max, maxRequests, acquireTimeout, releaseTimeout,
                    pool, available, requests, acquiring, live, ending,
                    destroyed, syncTimer, nextTicks, factPending, factLate,
                    ensureTimers, pingTimer, pingCb, teardowns,
                    drainListener, endCalled, closing, endCount, endCb,
                    held, resolved, factoryCalls, returned, late, tornDown,
                    destroyedRes, acquires, rr, cluster >>

FactorySuccess ==
    /\ factPending > 0
    /\ \E u \in Inputs : Step(acquireCallback(State, FALSE, FALSE, u))

FactoryError ==
    /\ factPending > 0
    /\ \E u \in Inputs : Step(acquireCallback(State, FALSE, TRUE, u))

AcquireTimeout ==
    /\ TimersRun /\ factPending > 0
    /\ \E u \in Inputs : Step(acquireTimer(State, u))

FactoryLateSuccess ==
    /\ factLate > 0
    /\ \E u \in Inputs : Step(acquireCallback(State, TRUE, FALSE, u))

FactoryLateError ==
    /\ factLate > 0
    /\ \E u \in Inputs : Step(acquireCallback(State, TRUE, TRUE, u))

\* setTimeout(this._ensureMinimum.bind(this), 2 * 1000) fires
EnsureTimer ==
    /\ TimersRun /\ ensureTimers > 0
    /\ \E u \in Inputs :
         Step(ensureMinimum([State EXCEPT !.ensureTimers = @ - 1], u))

PingSuccess ==
    \E r \in pingCb, u \in Inputs : Step(pingCallback(State, r, FALSE, u))

PingError ==
    \E r \in pingCb, u \in Inputs : Step(pingCallback(State, r, TRUE, u))

PingTimeout ==
    /\ TimersRun
    /\ \E r \in pingTimer, u \in Inputs :
         Step(abort([State EXCEPT !.pingTimer = @ \ {r}], r, u))

TeardownDone ==
    \E t \in teardowns, err \in BOOLEAN, u \in Inputs :
        Step(releaseCallback(State, t, err, u))

DisposeTimeout ==
    /\ TimersRun
    /\ \E t \in teardowns, u \in Inputs :
         /\ t.timer
         /\ Step(releaseTimer(State, t, u))

Next ==
    \/ Tick \/ Acquire \/ ReleaseHeld \/ ReleaseOther \/ RemoveCall
    \/ DestroyCall \/ End \/ DestroyPoolCall \/ SyncTick \/ Age
    \/ FactorySuccess \/ FactoryError \/ AcquireTimeout
    \/ FactoryLateSuccess \/ FactoryLateError \/ EnsureTimer
    \/ PingSuccess \/ PingError \/ PingTimeout
    \/ TeardownDone \/ DisposeTimeout

Spec == Init /\ [][Next]_vars

\* The event loop runs every queued process.nextTick entry and fires the
\* setInterval of the constructor as long as it is armed; a factory call in
\* flight calls back (the premise of a claim about a factory that succeeds).
\* The pool is given a minimum, nobody ends or destroys it, and the factory
\* calls back without an error before its timer fires.
InitMin == Init /\ min >= 1

NextOpen ==
    \/ Tick \/ Acquire \/ ReleaseHeld \/ ReleaseOther \/ RemoveCall
    \/ DestroyCall \/ SyncTick \/ Age \/ FactorySuccess
    \/ PingSuccess \/ PingError \/ PingTimeout
    \/ TeardownDone \/ DisposeTimeout

FairSpec ==
    /\ InitMin /\ [][NextOpen]_vars
    /\ WF_vars(Tick) /\ WF_vars(SyncTick) /\ WF_vars(FactorySuccess)

\* ------------------------------------------------- lib/resource-request.js
\* what the caller passes as the first argument of new ResourceRequest(...):
\* a function (new ResourceRequest(cb)), a duration
\* (new ResourceRequest(10, cb)) or nothing
FirstArgs == { "function", "number", "undefined" }

\* error messages, as tuples of their parts
NoError == << >>
Failed == << "fail" >>
AlreadyFulfilled == << "ResourceRequest.resolve(): Already fulfilled" >>
NotAFunction == << "TypeError" >>
\* req.abort() and req.abort('foo')
AbortReasons == { "No reason given", "foo" }

\* function ResourceRequest(callback); listener says whether the caller
\* attached an 'error' listener, expired whether the duration it passed as
\* the first argument has elapsed
newResourceRequest(callback, listener) ==
    [ cb |-> callback, fulfilled |-> FALSE, listener |-> listener,
      calls |-> << >>, emitted |-> << >>, threw |-> NoError,
      expired |-> FALSE, last |-> "new", n |-> 0 ]

\* a method call starts: nothing thrown yet
called(q, method) == [q EXCEPT !.threw = NoError, !.last = method, !.n = @ + 1]

\* this.cb(err, res)
cb(q, err, res) ==
    IF q.cb = "function"
    THEN [q EXCEPT !.calls = Append(@, [err |-> err, res |-> res])]
    ELSE [q EXCEPT !.threw = NotAFunction]

\* this.emit('error', err): an EventEmitter without an 'error' listener
\* throws err
emitError(q, err) ==
    IF q.listener THEN [q EXCEPT !.emitted = Append(@, err)]
    ELSE [q EXCEPT !.threw = err]

\* ResourceRequest.prototype.resolve
resolve(q, res) ==
    IF q.fulfilled THEN emitError(q, AlreadyFulfilled)
    ELSE cb([q EXCEPT !.fulfilled = TRUE], NoError, res)

\* ResourceRequest.prototype.reject
reject(q, err) ==
    IF q.fulfilled THEN emitError(q, err)
    ELSE cb([q EXCEPT !.fulfilled = TRUE], err, 0)

\* ResourceRequest.prototype.abort
requestAbort(q, reason) == [q EXCEPT !.fulfilled = TRUE]

\* req.clearTimeout() and req.setTimeout(d): the prototype has no such
\* method, the call is a TypeError
noSuchMethod(q) == [q EXCEPT !.threw = NotAFunction]

\* the duration passed to the constructor elapses: the constructor armed no
\* timer, nothing runs
deadline(q) == [q EXCEPT !.expired = TRUE, !.last = "deadline", !.n = @ + 1]

RECURSIVE RequestOps(_)
RequestOps(qs) == IF qs = << >> THEN 0 ELSE Head(qs).n + RequestOps(Tail(qs))

RequestStep(i, q) ==
    /\ RequestOps(rr) < MaxRequestOps
    /\ rr' = [rr EXCEPT ![i] = q]
    /\ UNCHANGED << poolVars, cluster >>

Construct ==
    /\ Len(rr) < MaxRequestObjs
    /\ \E a \in FirstArgs, l \in BOOLEAN :
          rr' = Append(rr, newResourceRequest(a, l))
    /\ UNCHANGED << poolVars, cluster >>

Resolve ==
    \E i \in DOMAIN rr : RequestStep(i, resolve(called(rr[i], "resolve"), 1))

Reject ==
    \E i \in DOMAIN rr :
        RequestStep(i, reject(called(rr[i], "reject"), Failed))

Abort ==
    \E i \in DOMAIN rr, reason \in AbortReasons :
        RequestStep(i, requestAbort(called(rr[i], "abort"), reason))

ClearTimeout ==
    \E i \in DOMAIN rr :
        RequestStep(i, noSuchMethod(called(rr[i], "clearTimeout")))

Deadline ==
    \E i \in DOMAIN rr :
        /\ rr[i].cb = "number" /\ ~rr[i].expired
        /\ RequestStep(i, deadline(rr[i]))

RequestNext ==
    \/ Construct \/ Resolve \/ Reject \/ Abort \/ ClearTimeout \/ Deadline

\* ResourceRequest objects used on their own, as the tests of
\* test/resource-request.test.js do
RequestSpec == Init /\ [][RequestNext]_vars

\* ----------------------------------------------------- the Cluster machine
\* the pools of the tests: no capabilities, ['read'] or ['read', 'write'],
\* with the max and maxRequests of the pool configurations
PoolKinds ==
    { newPool(caps, c.max, c.maxRequests) :
        caps \in { {}, { "read" }, { "read", "write" } }, c \in Configs }

\* new Cluster(), new Cluster(pool1), new Cluster([pool1, pool2])
ClusterInit ==
    /\ PoolInit /\ rr = << >>
    /\ \E n \in 0..MaxPools :
          \E pools \in [1..n -> PoolKinds] : cluster = newCluster(pools)

ClusterStep(c) == cluster' = c /\ UNCHANGED << poolVars, rr >>

\* cluster.acquire(cb), cluster.acquire('read', cb), cluster.acquire('write', cb)
ClusterAcquire ==
    /\ cluster.acquires < MaxClusterAcquires
    /\ \E required \in { {}, { "read" }, { "write" } } :
          ClusterStep(clusterAcquire(cluster, required))

PoolServe ==
    \E i \in DOMAIN cluster.pools :
        /\ cluster.pools[i].queued > 0
        /\ \/ cluster.pools[i].idle > 0
           \/ cluster.pools[i].allocated < cluster.pools[i].max
        /\ ClusterStep([cluster EXCEPT !.pools[i] = poolServe(@)])

ClusterRelease ==
    \E i \in DOMAIN cluster.pools :
        /\ cluster.pools[i].loaned > 0
        /\ ClusterStep(clusterRelease(cluster, i))

ClusterEnd ==
    /\ ~cluster.ended
    /\ ClusterStep(clusterEnd(cluster))

ClusterNext == ClusterAcquire \/ PoolServe \/ ClusterRelease \/ ClusterEnd

ClusterSpec == ClusterInit /\ [][ClusterNext]_vars

TypeOK ==
    /\ pool \subseteq Values
    /\ acquiring \in Int
    /\ factPending \in Nat /\ factLate \in Nat

C2_NeverDropped ==
    returned \subseteq (pool \cup tornDown \cup destroyedRes)

\* a late resource and a resource of a destroyed pool have both left the pool
C2_Witness ==
    /\ late # {} /\ destroyedRes # {}
    /\ returned \subseteq (tornDown \cup destroyedRes)
    /\ Cardinality(returned) = MaxFactoryCalls

\* C3: requests are fulfilled in the order they were admitted: no request
\* still waiting in the queue was admitted before a request whose callback
\* already received a resource (request ids grow with admission).
C3_Fifo ==
    /\ \A i \in 1..Len(requests) : \A r \in resolved : r < requests[i]
    /\ \A i, j \in 1..Len(requests) : i < j => requests[i] < requests[j]

\* the first request got its resource out of two pings in flight, the second
\* one is still queued
C3_Witness ==
    /\ resolved = {1} /\ requests = << 2 >>
    /\ pingCb # {} /\ Cardinality(returned) = 2

\* C4: a resource that the factory hands over after the acquire timer fired
\* is passed to the user's release by that handler, with no error event,
\* without entering pool or available and without touching any other
\* resource; it is never in pool, in available, in a ping or with a consumer.
C4_LateState ==
    /\ late \subseteq tornDown
    /\ late \cap pool = {} /\ late \cap held = {}
    /\ late \cap (pingCb \cup pingTimer) = {}
    /\ \A i \in 1..Len(available) : available[i] \notin late

C4_LateStep ==
    late' # late =>
        /\ tornDown' = tornDown \cup (late' \ late)
        /\ (late' \ late) \cap tornDown = {}
        /\ << "error" >> \notin events'
        /\ UNCHANGED << pool, available, held, requests, acquiring >>

C4_LateTornDown == [](C4_LateState) /\ [][C4_LateStep]_vars

\* a late resource was torn down while a resource that arrived in time is
\* with a consumer and was not torn down
C4_Witness ==
    /\ late # {}
    /\ \E r \in held : r \in pool /\ r \notin tornDown /\ r \notin late

\* C5: once end() has been called, closeResources does not start (the
\* user's release is not called for the pool's resources) and the callback
\* of end() does not fire while a consumer still has a resource.
C5_EndWaitsForLoaned ==
    (endCalled /\ held # {}) => (~closing /\ endCb = 0)

\* C6: after the callback of end() has been invoked, pool is empty and no
\* call of the user's release is outstanding.
C6_EndedIsEmpty ==
    endCb > 0 => (pool = {} /\ teardowns = {})

\* nothing is outstanding: every callback has fired, every loaned resource
\* was given back, no request waits and no process.nextTick entry is queued
Quiescent ==
    /\ nextTicks = << >> /\ requests = << >>
    /\ factPending = 0 /\ factLate = 0
    /\ pingCb = {} /\ teardowns = {} /\ held = {}

\* C7: when end(cb) was called and every callback has fired and every loaned
\* resource was released, cb has been invoked, exactly once.  (In a
\* Quiescent state of an ending pool no handler can emit drain any more: no
\* release succeeds and no factory call is or will be in flight.  The case
\* is restricted to acquiring = 0, so that a factory that threw instead of
\* calling back is not what keeps cb from firing.)
C7_EndCallbackFires ==
    /\ endCb <= 1
    /\ (endCalled /\ Quiescent /\ acquiring = 0) => endCb = 1

\* C8: closeResources starts only in a state where the request queue is empty
\* and acquiring is 0.
C8_CloseOnlyWhenIdle ==
    [][(~closing /\ closing') =>
          (Len(requests') = 0 /\ acquiring' = 0)]_vars

\* the fields of the pool a rejected acquire must leave alone
PoolFields ==
    << pool, available, stale, requests, acquiring, live, ending, destroyed,
       syncTimer, nextTicks, factPending, factLate, ensureTimers, pingTimer,
       pingCb, teardowns, drainListener, endCalled, closing, endCount,
       endCb, held, resolved, factoryCalls, returned, late, tornDown,
       destroyedRes >>

\* C9: acquire on a pool that is ENDING or DESTROYED admits no request: the
\* callback gets 'Pool is destroyed' when the pool is destroyed and 'Pool is
\* ending' when it is ending, nothing is emitted, and the queue and the rest
\* of the pool are unchanged.
C9_RejectsWhenClosed ==
    [][(acquires' = acquires + 1 /\ (ending \/ destroyed)) =>
          /\ events' = { << "cb", IF destroyed THEN "Pool is destroyed"
                                               ELSE "Pool is ending" >> }
          /\ UNCHANGED PoolFields]_vars

\* C10 as stated: the queue never holds more than maxRequests requests, and
\* an acquire issued when |requests| >= maxRequests is rejected with 'Pool is
\* full' and changes nothing.
C10_FullRejected ==
    [][(acquires' = acquires + 1 /\ Len(requests) >= maxRequests) =>
          /\ events' = { << "cb", "Pool is full" >> }
          /\ UNCHANGED PoolFields]_vars

\* C10 amended: the queue never holds more than maxRequests requests, and an
\* acquire issued when |requests| >= maxRequests on a pool that is neither
\* ending nor destroyed is rejected with 'Pool is full' and changes nothing.
C10_FullRejectedWhenOpen ==
    /\ [](Len(requests) <= maxRequests)
    /\ [][(acquires' = acquires + 1 /\ Len(requests) >= maxRequests
              /\ ~ending /\ ~destroyed) =>
             /\ events' = { << "cb", "Pool is full" >> }
             /\ UNCHANGED PoolFields]_vars

\* an acquire was just rejected because the queue is full
C10_Witness ==
    /\ << "cb", "Pool is full" >> \in events
    /\ Len(requests) = maxRequests /\ ~ending /\ ~destroyed

\* C11: once the pool is destroyed (by _destroyPool, also on the fatal
\* initial-error path) no request is left pending: the queue is empty.
C11_PendingRejected ==
    destroyed => requests = << >>

\* C12: release(R) of a value that is not a member of pool, or of a resource
\* that is already in available, emits the error event of that case and
\* nothing else (no drain), and leaves pool, available, requests, acquiring
\* and everything else of the pool unchanged (no dispatch, no factory call).
C12_BadReleaseNoEffect ==
    [][\A r \in Values :
          ( /\ r \notin held
            /\ r \notin pool \/ InSeq(available, r)
            /\ \E u \in Inputs : Step(release(State, r, u)) )
          => /\ events' = { << "error",
                               IF r \notin pool
                               THEN "Resource not member of pool"
                               ELSE "Resource already released" >> }
             /\ UNCHANGED PoolFields]_vars

\* an idle resource has just been released a second time, with a request
\* and a factory call pending
C12_Witness ==
    /\ events = { << "error", "Resource already released" >> }
    /\ available # << >> /\ factPending > 0

\* C13: a resource reaches a request's callback only from the callback of
\* its own ping, and only while the timer of that ping has not fired: no
\* request is resolved with a resource whose ping timed out.
C13_PingedBeforeUse ==
    [][\A r \in held' \ held : r \in pingCb /\ r \in pingTimer]_vars

\* C14: when the ping of a resource reports an error (before its timer
\* fired), the handler emits warn, passes the resource to the user's release
\* through remove, hands it to nobody, leaves the queue as it is, and
\* re-enters _maybeAllocateResource: on a pool that is not destroyed a ping
\* of another resource or a new factory call is started for the head request.
C14_PingFailRequeues ==
    [][\A r \in pingCb \cap pingTimer :
          (\E u \in Inputs : Step(pingCallback(State, r, TRUE, u)))
          => /\ << "warn", "Ping failed" >> \in events'
             /\ r \in tornDown' /\ \E t \in teardowns' : t.res = r
             /\ r \notin pool' /\ r \notin held' /\ ~InSeq(available', r)
             /\ requests' = requests /\ resolved' = resolved
             /\ (requests # << >> /\ ~destroyed')
                  => \/ (pingCb' \ {r}) \ pingCb # {}
                     \/ factoryCalls' > factoryCalls]_vars

\* a ping has just failed: its resource is with the user's release, the
\* request is still queued and a factory call for it is in flight
C14_Witness ==
    /\ << "warn", "Ping failed" >> \in events
    /\ requests # << >> /\ factPending > 0
    /\ \E t \in teardowns : t.res \notin pool

\* C15: a resource that was passed to the user's release or destroy is never
\* in pool or available again and is never handed to a request afterwards;
\* the callback of a ping whose timer has fired resolves no request and
\* emits no error.
C15_RemovedNeverHanded ==
    /\ [](/\ pool \cap (tornDown \cup destroyedRes) = {}
          /\ \A i \in 1..Len(available) :
                available[i] \notin tornDown \cup destroyedRes)
    /\ [][/\ \A r \in held' \ held : r \notin tornDown \cup destroyedRes
          /\ \A r \in pingCb \ pingTimer :
                r \notin pingCb' =>
                    /\ requests' = requests /\ held' = held
                    /\ \A e \in events' : e[1] \notin {"error", "TypeError"}]_vars

\* C16: no factory call is started for a request that an allocation already
\* in flight would serve: with min = 1 and at most one acquire, while no
\* factory call has failed or timed out and no resource has been removed or
\* destroyed, the factory has been called at most once.
C16_NoOverallocation ==
    ( /\ min = 1 /\ acquires <= 1
      /\ tornDown = {} /\ destroyedRes = {}
      /\ factLate = 0 /\ late = {}
      /\ factoryCalls = Cardinality(returned) + factPending )
    => factoryCalls <= 1

\* some factory call threw, called back with an error, timed out or called
\* back after its timer
FactoryFailed ==
    \/ factoryCalls # Cardinality(returned) + factPending
    \/ late # {}

\* the calls of the factory the model follows are used up: none is in flight
\* and the handler the event loop runs next (the head of the nextTick queue,
\* or else the sync timer) would call the factory more often than
\* MaxFactoryCalls allows
BudgetOut ==
    /\ factPending = 0
    /\ \A u \in Inputs :
          ~Within(IF nextTicks = << >> THEN syncTick(State, u)
                  ELSE IF Head(nextTicks) = "ensureMinimum"
                       THEN ensureMinimum(State, u)
                       ELSE maybeAllocateResource(State, u))

\* C17: while the pool is neither ending nor destroyed and no factory call
\* fails, a pool with fewer than min resources (after construction, after a
\* remove or a destroy) eventually has min resources again.
C17_RefillsToMin ==
    (~ending /\ ~destroyed /\ Cardinality(pool) < min)
        ~> \/ Cardinality(pool) >= min
           \/ ending \/ destroyed \/ FactoryFailed \/ BudgetOut

\* the pool is back at min after one of its resources was removed
C17_Witness ==
    /\ min >= 1 /\ Cardinality(pool) >= min /\ tornDown \cup destroyedRes # {}
    /\ ~ending /\ ~destroyed /\ ~FactoryFailed

\* C18: a reap pass, run where the sync timer runs it (after
\* _ensureMinimum), removes only resources that are in available and idle
\* for longer than idleTimeout, none that a consumer holds or that is being
\* pinged, passes exactly the removed ones to the user's release, does not
\* take a pool that has min resources below min, and takes a pool whose
\* resources are all idle for longer than idleTimeout down to exactly min.
C18_ReapOnlyIdle ==
    \A u \in Inputs :
        LET s0 == ensureMinimum(State, u)
            t == reap(s0, u)
            removed == s0.pool \ t.pool
        IN  /\ \A r \in removed : InSeq(s0.available, r) /\ r \in s0.stale
            /\ removed \cap (s0.held \cup s0.pingCb \cup s0.pingTimer) = {}
            /\ t.pool \subseteq s0.pool /\ t.held = s0.held
            /\ { x.res : x \in t.teardowns \ s0.teardowns } = removed
            /\ Cardinality(s0.pool) >= min => Cardinality(t.pool) >= min
            /\ ( /\ Cardinality(s0.pool) >= min
                 /\ \A r \in s0.pool :
                       InSeq(s0.available, r) /\ r \in s0.stale )
               => Cardinality(t.pool) = min

\* the sync timer is about to run a reap pass on a pool above min that has a
\* resource idle for too long and a resource on loan
C18_Witness ==
    /\ syncTimer /\ TimersRun
    /\ Cardinality(pool) > min /\ held # {}
    /\ \E i \in 1..Len(available) : available[i] \in stale

\* C19: the timer of remove calls the user's destroy only when
\* releaseTimeout (the spec's disposeTimeout) is greater than 0, and then it
\* does; a teardown that calls back before the timer does not invoke destroy.
C19_DisposeGuard ==
    [][\A t \in teardowns :
          /\ ( /\ t.timer /\ t \notin teardowns'
               /\ [t EXCEPT !.timer = FALSE] \in teardowns' )
             => (releaseTimeout > 0 /\ t.res \in destroyedRes')
          /\ ( /\ t \notin teardowns'
               /\ [t EXCEPT !.timer = FALSE] \notin teardowns' )
             => destroyedRes' = destroyedRes]_vars

\* C20: the timer of _allocateResource fires only when acquireTimeout is
\* greater than 0 (with 0 the call stays counted in acquiring), and when it
\* fires an error ('Timed out acquiring resource') is emitted.
C20_AcquireGuard ==
    [][factLate' > factLate =>
          (acquireTimeout > 0 /\ << "error" >> \in events')]_vars

\* opts.bailAfter of the pool, in milliseconds
BailAfter == 100

\* the state the constructor leaves: no handler has run yet and no time has
\* passed
Constructed ==
    /\ nextTicks = << "ensureMinimum" >> /\ factoryCalls = 0 /\ acquires = 0
    /\ ~endCalled /\ ~destroyed /\ ~live

\* C21: a factory failure of a pool that was never live, at an elapsed time
\* within bailAfter (here: in the first handler after construction, at
\* elapsed time 0), emits no fatal error and does not destroy the pool.
C21_RetriesUntilBail ==
    [][(Constructed /\ 0 < BailAfter /\ factoryCalls' > factoryCalls
          /\ factPending' = factPending)
       => (~destroyed' /\ << "error" >> \notin events')]_vars

\* C22: on a live pool a factory call that calls back with an error, or
\* whose acquire timer fires, is reported with a warn event and with no
\* error event, and leaves destroyed, pool and available as they are.
C22_LiveFailureWarns ==
    [][( /\ live /\ returned' = returned
         /\ factPending' < factPending \/ factLate' < factLate )
       => /\ \E e \in events' : e[1] = "warn"
          /\ \A e \in events' : e[1] # "error"
          /\ destroyed' = destroyed
          /\ pool' = pool /\ available' = available]_vars

\* C28: a resource of the pool is never left outside available with no
\* holder: every member of pool is in available, with a consumer, or in a
\* ping whose callback is outstanding (when a ping succeeds and no request
\* is left, the resource goes back to available).
C28_NoLeakedResource ==
    \A r \in pool : InSeq(available, r) \/ r \in held \/ r \in pingCb

\* Nothing is in flight: no factory call, ping or teardown is pending, no
\* nextTick entry is queued and no one-shot timer is armed, so the only code
\* of the pool that still runs by itself is the setInterval callback.
NothingInFlight ==
    /\ factPending = 0 /\ factLate = 0 /\ pingCb = {} /\ pingTimer = {}
    /\ teardowns = {} /\ nextTicks = << >> /\ ensureTimers = 0

\* C23: a live pool with min = 0 never sits idle with a pending request and
\* room below max: while a request is pending and fewer than max resources
\* exist, either something is in flight or the next run of the sync timer
\* starts a factory attempt or a ping for it (changes the state).
C23_NoIdleWithRoom ==
    ( /\ live /\ min = 0 /\ ~destroyed /\ ~ending /\ syncTimer
      /\ requests # << >> /\ Cardinality(pool) < max
      /\ NothingInFlight )
    => \E u \in Inputs : syncTick(State, u) # State
\* the error a redundant resolve or reject is to emit
RedundantFulfill == << "redundant fulfill" >>
\* the error an aborted request is to be rejected with
Aborted(reason) == << "aborted: ", reason >>

\* a method call or an elapsed deadline on request i in this step
RequestActed(i) == i \in DOMAIN rr /\ rr'[i].n = rr[i].n + 1

\* C24: the callback of a ResourceRequest is invoked at most once, and a
\* resolve or reject on a request that is already terminal emits the error
\* 'redundant fulfill' on the request (to its 'error' listener) and does not
\* invoke the callback.
C24_OneShot ==
    [][\A i \in DOMAIN rr :
         /\ Len(rr'[i].calls) <= 1
         /\ ( /\ RequestActed(i) /\ rr[i].fulfilled /\ rr[i].listener
              /\ rr'[i].last \in { "resolve", "reject" } )
            => /\ rr'[i].emitted = Append(rr[i].emitted, RedundantFulfill)
               /\ rr'[i].calls = rr[i].calls]_vars

\* C25: abort(reason) on a request that is not terminal makes it terminal
\* and invokes its callback once, with the error 'aborted: <reason>'.
C25_AbortRejects ==
    [][\A i \in DOMAIN rr :
         ( /\ RequestActed(i) /\ rr'[i].last = "abort"
           /\ ~rr[i].fulfilled /\ rr[i].cb = "function" )
         => /\ rr'[i].fulfilled
            /\ \E reason \in AbortReasons :
                  rr'[i].calls = << [err |-> Aborted(reason), res |-> 0] >>]_vars

\* C26: the call of resolve, reject or abort that makes a request terminal
\* does not itself invoke the callback.
C26_CallbackDeferred ==
    [][\A i \in DOMAIN rr :
         (~rr[i].fulfilled /\ rr'[i].fulfilled)
         => rr'[i].calls = rr[i].calls]_vars

\* C27: when the duration given to the constructor elapses on a request
\* that is not terminal, the request is rejected with 'timed out'; on a
\* request that is terminal the deadline invokes nothing.
C27_TimesOut ==
    [][\A i \in DOMAIN rr :
         (RequestActed(i) /\ rr'[i].last = "deadline")
         => IF rr[i].fulfilled
            THEN rr'[i].calls = rr[i].calls
            ELSE rr'[i].fulfilled]_vars
\* this step is a call of Cluster.acquire on a cluster that is not ended
ClusterAcquired == cluster'.acquires = cluster.acquires + 1 /\ ~cluster.ended

\* the registered pools whose capabilities contain every required tag
Fulfilling(required) ==
    { i \in DOMAIN cluster.pools : required \subseteq cluster.pools[i].capabilities }

C32_AvailableInPool ==
    /\ \A i \in 1..Len(available) : available[i] \in pool
    /\ \A i, j \in 1..Len(available) : available[i] = available[j] => i = j

\* a resource is idle again after it was handed out and released, and
\* another resource has been removed from the pool
C32_Witness ==
    /\ available # << >> /\ held = {} /\ resolved # {}
    /\ tornDown \cup destroyedRes # {}
\* C33: acquiring counts exactly the factory calls that have neither
\* concluded nor timed out: it is incremented once per call, decremented
\* once when the call concludes (success, error, synchronous throw or
\* timeout, whichever comes first), and is never negative.
C33_AcquiringExact ==
    acquiring = factPending /\ acquiring >= 0

\* C34: while the pool is ending and end() waits for drain, a factory call
\* that concludes (success, error or timeout) and leaves no request queued
\* and acquiring = 0 emits drain, so the end routine starts closing.
C34_DrainWhenFactoryConcludes ==
    [][( /\ ending /\ drainListener /\ factPending' < factPending
         /\ requests' = << >> /\ acquiring' = 0 )
       => (<< "drain" >> \in events' /\ closing')]_vars

\* C35: once the pool is destroyed, it holds no resource and available is
\* empty.
C35_DestroyedIsEmpty ==
    destroyed => (pool = {} /\ available = << >>)
\* C36: drain is emitted only by a handler that starts and ends with an
\* empty request queue; and the release of a resource that is in the pool
\* and not idle emits drain exactly when the queue is empty at that time.
C36_DrainOnlyWhenEmpty ==
    /\ [][(<< "drain" >> \in events')
          => (requests = << >> /\ requests' = << >>)]_vars
    /\ [](\A r \in held, u \in Inputs :
            (r \in pool /\ ~InSeq(available, r))
            => ( << "drain" >> \in
                    release([State EXCEPT !.held = @ \ {r}], r, u).events
                 <=> requests = << >> ))

\* a release has just emitted drain, after a request was served
C36_Witness ==
    /\ << "drain" >> \in events /\ requests = << >> /\ resolved # {}
    /\ available # << >>
\* C37: the status of the pool only moves forward: live, ending and
\* destroyed, once true, stay true; and when the teardown started by end()
\* has completed (the end callback was invoked), the pool is destroyed.
C37_StatusForward ==
    /\ [][(live => live') /\ (ending => ending')
          /\ (destroyed => destroyed')]_vars
    /\ [](endCb > 0 => destroyed)

\* C38: the pool passes a resource to remove at most once on account of one
\* ping: when the ping timer has fired for a resource and removed it, the
\* ping callback that arrives later does not remove it again and no
\* 'non-member' error is emitted.
C38_RemovedOnce ==
    [][\A r \in pingCb :
         (r \notin pingTimer /\ r \in tornDown /\ r \notin pingCb')
         => << "error" >> \notin events']_vars

\* C39: a resource a consumer holds is neither in available nor being
\* pinged for a request, so no resource is handed to a second consumer
\* while the first one holds it.
C39_HeldExclusively ==
    \A r \in held : ~InSeq(available, r) /\ r \notin pingCb

\* one resource is held while another one is idle or being pinged, after a
\* resource was released and handed out again
C39_Witness ==
    /\ held # {} /\ Cardinality(resolved) = MaxAcquires
    /\ \E r \in pool \ held : InSeq(available, r) \/ r \in pingCb

\* C40: when the end routine has handed every resource to the user teardown
\* and the dispose timer has fired for each teardown that is outstanding (the
\* destroy fallback ran), the end callback has been invoked.
C40_EndSurvivesHungTeardown ==
    ( /\ closing /\ releaseTimeout > 0
      /\ \E t \in teardowns : t.forEnd
      /\ \A t \in teardowns : t.forEnd => ~t.timer )
    => endCb > 0
====
